---- MODULE Spec2Model ----
(***************************************************************************)
(* A model of bitstring's bit store (bitstring/bitstore.py) and of its     *)
(* scalar codec helpers (bitstring/bitstore_helpers.py).                   *)
(*                                                                         *)
(* A bitarray is modelled as a sequence over {0,1} in storage (MSB0)       *)
(* order.  Python's optional values are sequences of length 0 (None) or 1. *)
(***************************************************************************)
EXTENDS Integers, Sequences, FiniteSets, TLC

VARIABLES
    x,          \* the BitStore the operations act on (self)
    y,          \* the BitStore passed as the other operand
    op,         \* name of the last operation called
    err,        \* the exception the last operation raised, "" for none
    ret,        \* the value the last operation returned
    call,       \* the arguments of a codec function call
    result,     \* what the codec function call produced
    register    \* the dtype register: name -> definition

vars == <<x, y, op, err, ret, call, result, register>>

----------------------------------------------------------------------------
(* Bounds of the model.                                                    *)

MaxBits == 3        \* longest bitarray a store holds
MaxOther == 2       \* longest bitarray of the other operand

----------------------------------------------------------------------------
(* Python values.                                                          *)

None == <<>>
Some(v) == <<v>>
IsNone(o) == o = <<>>
Val(o) == o[1]

Bit == {0, 1}
BitSeqs(n) == UNION {[1..k -> Bit] : k \in 0..n}

Min(a, b) == IF a < b THEN a ELSE b
Max(a, b) == IF a > b THEN a ELSE b

\* slice(start, stop, step): each field an optional integer
Slice(start, stop, step) == [start |-> start, stop |-> stop, step |-> step]

\* slice.indices(length): the slice as three integers clamped to the length.
\* A step of 0 raises ValueError and is never passed here.
slice_indices(key, length) ==
    LET step == IF IsNone(key.step) THEN 1 ELSE Val(key.step)
        lower == IF step < 0 THEN -1 ELSE 0
        upper == IF step < 0 THEN length - 1 ELSE length
        clamp(v) == IF v < 0 THEN Max(v + length, lower) ELSE Min(v, upper)
        start == IF IsNone(key.start)
                 THEN (IF step < 0 THEN upper ELSE lower)
                 ELSE clamp(Val(key.start))
        stop == IF IsNone(key.stop)
                THEN (IF step < 0 THEN lower ELSE upper)
                ELSE clamp(Val(key.stop))
    IN  [start |-> start, stop |-> stop, step |-> step]

\* range(start, stop, step) as a sequence of integers
slice_length(start, stop, step) ==
    IF step > 0
    THEN (IF start < stop THEN (stop - start + step - 1) \div step ELSE 0)
    ELSE (IF start > stop THEN (start - stop - step - 1) \div (-step) ELSE 0)

range(start, stop, step) ==
    [k \in 1..slice_length(start, stop, step) |-> start + (k - 1) * step]

\* the 0-based positions of a sequence of length n that a slice selects
slice_positions(key, n) ==
    LET i == slice_indices(key, n)
    IN  range(i.start, i.stop, i.step)

----------------------------------------------------------------------------
(* bitarray: the operations of the backing object the store calls.         *)

\* an integer index, negative counting from the end; IndexError outside
norm_index(index, n) == IF index < 0 THEN index + n ELSE index
index_ok(index, n) == norm_index(index, n) \in 0..(n - 1)

ba_getitem_index(ba, index) == ba[norm_index(index, Len(ba)) + 1]

ba_getitem_slice(ba, key) ==
    LET p == slice_positions(key, Len(ba))
    IN  [k \in 1..Len(p) |-> ba[p[k] + 1]]

ba_setitem_index(ba, index, value) ==
    [ba EXCEPT ![norm_index(index, Len(ba)) + 1] = value]

ba_invert_index(ba, index) ==
    [ba EXCEPT ![norm_index(index, Len(ba)) + 1] = 1 - @]

ba_invert_all(ba) == [k \in 1..Len(ba) |-> 1 - ba[k]]

ba_setall(ba, value) == [k \in 1..Len(ba) |-> value]

ba_reverse(ba) == [k \in 1..Len(ba) |-> ba[Len(ba) + 1 - k]]

\* the elements whose 0-based position is not in the set dropped
RECURSIVE ba_without(_, _, _)
ba_without(ba, dropped, k) ==
    IF k > Len(ba) THEN <<>>
    ELSE (IF (k - 1) \in dropped THEN <<>> ELSE <<ba[k]>>)
         \o ba_without(ba, dropped, k + 1)

Image(p) == {p[k] : k \in 1..Len(p)}

ba_delitem_index(ba, index) ==
    ba_without(ba, {norm_index(index, Len(ba))}, 1)

ba_delitem_slice(ba, key) ==
    ba_without(ba, Image(slice_positions(key, Len(ba))), 1)

\* a[key] = bit: every selected position set to the bit
ba_setitem_slice_bit(ba, key, value) ==
    LET sel == Image(slice_positions(key, Len(ba)))
    IN  [k \in 1..Len(ba) |-> IF (k - 1) \in sel THEN value ELSE ba[k]]

\* a[key] = bitarray: a step of 1 splices (the array may change length), any
\* other step assigns element by element and needs equal lengths (ValueError)
ba_setitem_slice_ok(ba, key, value) ==
    LET i == slice_indices(key, Len(ba))
    IN  i.step = 1 \/ slice_length(i.start, i.stop, i.step) = Len(value)

ba_setitem_slice_ba(ba, key, value) ==
    LET i == slice_indices(key, Len(ba))
        p == range(i.start, i.stop, i.step)
        stop == Max(i.start, i.stop)
    IN  IF i.step = 1
        THEN SubSeq(ba, 1, i.start) \o value \o SubSeq(ba, stop + 1, Len(ba))
        ELSE [k \in 1..Len(ba) |->
                IF \E m \in 1..Len(p) : p[m] = k - 1
                THEN value[CHOOSE m \in 1..Len(p) : p[m] = k - 1]
                ELSE ba[k]]

ba_and(a, b) == [k \in 1..Len(a) |-> IF a[k] = 1 /\ b[k] = 1 THEN 1 ELSE 0]
ba_or(a, b) == [k \in 1..Len(a) |-> IF a[k] = 1 \/ b[k] = 1 THEN 1 ELSE 0]
ba_xor(a, b) == [k \in 1..Len(a) |-> IF a[k] # b[k] THEN 1 ELSE 0]

----------------------------------------------------------------------------
(* BitStore.                                                               *)

\* What a call produces: the exception raised ("" for none), the store
\* afterwards and the value returned.
Outcome(e, s, r) == [err |-> e, self |-> s, ret |-> r]

\* BitStore.__init__ with an initializer that is a sequence of bits; buffer
\* and frombytes build the same kind of bitarray from bytes and are left out.
NewStore(initializer, immutable, filename, length) ==
    [bitarray |-> initializer, immutable |-> immutable,
     modified |-> (~IsNone(length) \/ filename # ""),
     length |-> IF ~IsNone(length) \/ filename # ""
                THEN (IF IsNone(length) THEN Some(Len(initializer)) ELSE length)
                ELSE None,
     filename |-> filename]

BitStore_init(initializer, immutable, filename, length) ==
    LET s == NewStore(initializer, immutable, filename, length)
    IN  IF ~s.modified THEN Outcome("", s, None)
        ELSE IF ~immutable THEN Outcome("AssertionError", s, None)
        ELSE IF Val(s.length) < 0 THEN Outcome("CreationError", s, None)
        ELSE IF Val(s.length) > Len(initializer) THEN Outcome("CreationError", s, None)
        ELSE Outcome("", s, None)

\* BitStore(ba): the store the methods wrap their results in
BitStore(ba) == NewStore(ba, FALSE, "", None)

\* BitStore.__len__
len(self) == IF ~IsNone(self.length) THEN Val(self.length) ELSE Len(self.bitarray)

WithBits(self, ba) == [self EXCEPT !.bitarray = ba]

\* keys and values of setitem / delitem: isinstance(key, slice),
\* isinstance(value, BitStore)
IndexKey(i) == [isslice |-> FALSE, index |-> i]
SliceKey(s) == [isslice |-> TRUE, slice |-> s]
BitValue(b) == [isstore |-> FALSE, bit |-> b]
StoreValue(s) == [isstore |-> TRUE, store |-> s]

\* bitarray.__setitem__(key, value)
ba_setitem(self, key, value) ==
    IF key.isslice
    THEN IF value.isstore
         THEN IF ba_setitem_slice_ok(self.bitarray, key.slice, value.store.bitarray)
              THEN Outcome("", WithBits(self, ba_setitem_slice_ba(self.bitarray, key.slice,
                                                             value.store.bitarray)), None)
              ELSE Outcome("ValueError", self, None)
         ELSE Outcome("", WithBits(self, ba_setitem_slice_bit(self.bitarray, key.slice,
                                                          value.bit)), None)
    ELSE IF value.isstore THEN Outcome("TypeError", self, None)
    ELSE IF index_ok(key.index, Len(self.bitarray))
         THEN Outcome("", WithBits(self, ba_setitem_index(self.bitarray, key.index,
                                                      value.bit)), None)
         ELSE Outcome("IndexError", self, None)

\* bitarray.__delitem__(key)
ba_delitem(self, key) ==
    IF key.isslice
    THEN Outcome("", WithBits(self, ba_delitem_slice(self.bitarray, key.slice)), None)
    ELSE IF index_ok(key.index, Len(self.bitarray))
         THEN Outcome("", WithBits(self, ba_delitem_index(self.bitarray, key.index)), None)
         ELSE Outcome("IndexError", self, None)

\* bitarray.invert(index) / bitarray.invert()
ba_invert(self, index) ==
    IF IsNone(index)
    THEN Outcome("", WithBits(self, ba_invert_all(self.bitarray)), None)
    ELSE IF index_ok(Val(index), Len(self.bitarray))
         THEN Outcome("", WithBits(self, ba_invert_index(self.bitarray, Val(index))), None)
         ELSE Outcome("IndexError", self, None)

offset_slice_indices_lsb0(key, length) ==
    LET i == slice_indices(key, length)
        new_start == length - i.stop
        new_stop == length - i.start
    IN  Slice(Some(new_start), IF new_stop < 0 THEN None ELSE Some(new_stop), Some(i.step))

setall(self, value) == Outcome("", WithBits(self, ba_setall(self.bitarray, value)), None)

clear(self) == Outcome("", WithBits(self, <<>>), None)

reverse(self) == Outcome("", WithBits(self, ba_reverse(self.bitarray)), None)

iadd(self, other) == Outcome("", WithBits(self, self.bitarray \o other.bitarray), None)

iand(self, other) ==
    IF Len(self.bitarray) # Len(other.bitarray) THEN Outcome("ValueError", self, None)
    ELSE Outcome("", WithBits(self, ba_and(self.bitarray, other.bitarray)), None)

ior(self, other) ==
    IF Len(self.bitarray) # Len(other.bitarray) THEN Outcome("ValueError", self, None)
    ELSE Outcome("", WithBits(self, ba_or(self.bitarray, other.bitarray)), None)

ixor(self, other) ==
    IF Len(self.bitarray) # Len(other.bitarray) THEN Outcome("ValueError", self, None)
    ELSE Outcome("", WithBits(self, ba_xor(self.bitarray, other.bitarray)), None)

getindex_msb0(self, index) ==
    IF index_ok(index, Len(self.bitarray))
    THEN Outcome("", self, Some(ba_getitem_index(self.bitarray, index) = 1))
    ELSE Outcome("IndexError", self, None)

getindex_lsb0(self, index) ==
    IF index_ok(-index - 1, Len(self.bitarray))
    THEN Outcome("", self, Some(ba_getitem_index(self.bitarray, -index - 1) = 1))
    ELSE Outcome("IndexError", self, None)

getslice_msb0(self, key) ==
    LET i == slice_indices(key, len(self))
        k == IF self.modified THEN Slice(Some(i.start), Some(i.stop), Some(i.step)) ELSE key
    IN  Outcome("", self, Some(BitStore(ba_getitem_slice(self.bitarray, k))))

getslice_lsb0(self, key) ==
    LET k == offset_slice_indices_lsb0(key, len(self))
    IN  Outcome("", self, Some(BitStore(ba_getitem_slice(self.bitarray, k))))

setitem_lsb0(self, key, value) ==
    IF key.isslice
    THEN ba_setitem(self, SliceKey(offset_slice_indices_lsb0(key.slice, len(self))), value)
    ELSE ba_setitem(self, IndexKey(-key.index - 1), value)

delitem_lsb0(self, key) ==
    IF key.isslice
    THEN ba_delitem(self, SliceKey(offset_slice_indices_lsb0(key.slice, len(self))))
    ELSE ba_delitem(self, IndexKey(-key.index - 1))

invert_msb0(self, index) == ba_invert(self, index)

invert_lsb0(self, index) ==
    ba_invert(self, IF IsNone(index) THEN None ELSE Some(-Val(index) - 1))

setitem_msb0(self, key, value) == ba_setitem(self, key, value)

delitem_msb0(self, key) == ba_delitem(self, key)

----------------------------------------------------------------------------
(* The store as a state machine: a store is constructed, then any of its   *)
(* operations is called on it, in any order.                               *)

Indices == (-(MaxBits + 1))..MaxBits
OptIndex == {None, Some(-1), Some(1), Some(2)}
OptStep == {None, Some(2), Some(-1)}
SliceKeys == {Slice(a, b, c) : a \in OptIndex, b \in OptIndex, c \in OptStep}
Lengths == {None} \cup {Some(n) : n \in (-1)..(MaxBits + 1)}
Filenames == {"", "f"}

Unused == <<>>

InitStore ==
    /\ x = BitStore(<<>>)
    /\ y = BitStore(<<>>)
    /\ op = "BitStore"
    /\ err = ""
    /\ ret = None
    /\ call = Unused
    /\ result = Unused
    /\ register = Unused

\* the call of a method on x: what it raised and returned, and x afterwards
Apply(name, o) ==
    /\ Len(o.self.bitarray) <= MaxBits
    /\ op' = name
    /\ err' = o.err
    /\ ret' = o.ret
    /\ x' = o.self
    /\ UNCHANGED <<y, call, result, register>>

Construct ==
    \E initializer \in BitSeqs(MaxBits), immutable \in BOOLEAN,
       filename \in Filenames, length \in Lengths :
        LET o == BitStore_init(initializer, immutable, filename, length)
        IN  Apply("__init__", IF o.err = "" THEN o ELSE Outcome(o.err, x, None))

ConstructOther ==
    \E initializer \in BitSeqs(MaxOther) :
        /\ y' = BitStore(initializer)
        /\ op' = "BitStore"
        /\ err' = ""
        /\ ret' = None
        /\ UNCHANGED <<x, call, result, register>>

SetitemMsb0 ==
    \/ \E i \in Indices, b \in Bit : Apply("setitem_msb0", setitem_msb0(x, IndexKey(i), BitValue(b)))
    \/ \E k \in SliceKeys, b \in Bit : Apply("setitem_msb0", setitem_msb0(x, SliceKey(k), BitValue(b)))
    \/ \E k \in SliceKeys : Apply("setitem_msb0", setitem_msb0(x, SliceKey(k), StoreValue(y)))

SetitemLsb0 ==
    \/ \E i \in Indices, b \in Bit : Apply("setitem_lsb0", setitem_lsb0(x, IndexKey(i), BitValue(b)))
    \/ \E k \in SliceKeys, b \in Bit : Apply("setitem_lsb0", setitem_lsb0(x, SliceKey(k), BitValue(b)))
    \/ \E k \in SliceKeys : Apply("setitem_lsb0", setitem_lsb0(x, SliceKey(k), StoreValue(y)))

DelitemMsb0 ==
    \/ \E i \in Indices : Apply("delitem_msb0", delitem_msb0(x, IndexKey(i)))
    \/ \E k \in SliceKeys : Apply("delitem_msb0", delitem_msb0(x, SliceKey(k)))

DelitemLsb0 ==
    \/ \E i \in Indices : Apply("delitem_lsb0", delitem_lsb0(x, IndexKey(i)))
    \/ \E k \in SliceKeys : Apply("delitem_lsb0", delitem_lsb0(x, SliceKey(k)))

InvertMsb0 ==
    \E i \in {None} \cup {Some(n) : n \in Indices} : Apply("invert_msb0", invert_msb0(x, i))

InvertLsb0 ==
    \E i \in {None} \cup {Some(n) : n \in Indices} : Apply("invert_lsb0", invert_lsb0(x, i))

Setall == \E b \in Bit : Apply("setall", setall(x, b))

Clear == Apply("clear", clear(x))

Reverse == Apply("reverse", reverse(x))

Iand == Apply("__iand__", iand(x, y))

Ior == Apply("__ior__", ior(x, y))

Ixor == Apply("__ixor__", ixor(x, y))

Iadd == Apply("__iadd__", iadd(x, y))

GetindexMsb0 == \E i \in Indices : Apply("getindex_msb0", getindex_msb0(x, i))

GetindexLsb0 == \E i \in Indices : Apply("getindex_lsb0", getindex_lsb0(x, i))

NextStore ==
    \/ Construct
    \/ ConstructOther
    \/ SetitemMsb0
    \/ SetitemLsb0
    \/ DelitemMsb0
    \/ DelitemLsb0
    \/ InvertMsb0
    \/ InvertLsb0
    \/ Setall
    \/ Clear
    \/ Reverse
    \/ Iand
    \/ Ior
    \/ Ixor
    \/ Iadd
    \/ GetindexMsb0
    \/ GetindexLsb0

SpecStore == InitStore /\ [][NextStore]_vars

\* the operations the store documents as changing it
Mutators ==
    {"setitem_msb0", "setitem_lsb0", "delitem_msb0", "delitem_lsb0", "invert_msb0",
     "invert_lsb0", "setall", "clear", "reverse", "__iand__", "__ior__", "__ixor__",
     "__iadd__"}

\* C1: a mutating operation called on a store whose immutable flag is true is
\* rejected with an immutable error and leaves the store's bits and length
\* as they were.
C1_ImmutableRejectsMutation ==
    [][(x.immutable /\ op' \in Mutators)
        => (err' = "ImmutableError" /\ x'.bitarray = x.bitarray /\ len(x') = len(x))]_vars

\* C2: LSB0 indexing mirrors MSB0 indexing over the logical length of the
\* store: getindex_lsb0(j) = getindex_msb0(len - 1 - j) for 0 <= j < len.
C2_LsbMirrorsMsb ==
    \A j \in 0..(len(x) - 1) :
        getindex_lsb0(x, j) = getindex_msb0(x, len(x) - 1 - j)

----------------------------------------------------------------------------
(* Slicing: a store and a slice are chosen, then the slice is taken in one *)
(* of the two addressing conventions.                                      *)

MaxSliceBits == 3   \* longest store sliced
MaxSliceIndex == 4  \* largest |start|, |stop| of a slice
MaxSliceStep == 3   \* largest |step| of a slice

SliceBounds == {None} \cup {Some(i) : i \in (-MaxSliceIndex)..MaxSliceIndex}
SliceSteps == {None} \cup {Some(i) : i \in ((-MaxSliceStep)..MaxSliceStep) \ {0}}

InitSlice ==
    /\ x \in {BitStore(b) : b \in BitSeqs(MaxSliceBits)}
    /\ y = BitStore(<<>>)
    /\ call \in {[key |-> Slice(a, b, c)] : a \in SliceBounds, b \in SliceBounds, c \in SliceSteps}
    /\ op = "BitStore"
    /\ err = ""
    /\ ret = None
    /\ result = Unused
    /\ register = Unused

Getslice(name, o) ==
    /\ op = "BitStore"
    /\ op' = name
    /\ err' = o.err
    /\ ret' = o.ret
    /\ UNCHANGED <<x, y, call, result, register>>

GetsliceMsb0 == Getslice("getslice_msb0", getslice_msb0(x, call.key))

GetsliceLsb0 == Getslice("getslice_lsb0", getslice_lsb0(x, call.key))

NextSlice == GetsliceMsb0 \/ GetsliceLsb0

SpecSlice == InitSlice /\ [][NextSlice]_vars

\* the MSB0 positions a reference selects that numbers the bits from the
\* least significant end and slices that numbering directly
lsb0_reference(key, length) ==
    {length - 1 - j : j \in Image(slice_positions(key, length))}

\* C3: the MSB0 slice that offset_slice_indices_lsb0 returns selects exactly
\* the MSB0 positions L-1-j for the LSB0 positions j the slice selects, for
\* every step other than 0.
C3_Lsb0SliceExact ==
    op = "getslice_lsb0" =>
        /\ Image(slice_positions(offset_slice_indices_lsb0(call.key, len(x)), len(x)))
             = lsb0_reference(call.key, len(x))
        /\ Cardinality(lsb0_reference(call.key, len(x))) = Len(Val(ret).bitarray)

----------------------------------------------------------------------------
(* Fixed-width integers: int2bitstore and slice_to_uint / slice_to_int.    *)

MaxWidth == 4       \* widest integer encoded
MaxInt == 20        \* largest |i| encoded

\* 1 << n
shl(n) == 2 ^ n

\* the n-bit big-endian binary form of i, 0 <= i
to_bits(i, n) == [k \in 1..n |-> (i \div shl(n - k)) % 2]

\* the unsigned value of a big-endian bit sequence
RECURSIVE from_bits(_)
from_bits(ba) ==
    IF Len(ba) = 0 THEN 0
    ELSE 2 * from_bits(SubSeq(ba, 1, Len(ba) - 1)) + ba[Len(ba)]

\* bitarray.util.int2ba(i, length=length, endian='big', signed=signed):
\* ValueError unless length > 0, OverflowError outside the range of the
\* length, two's complement below 0
int2ba_bad_sign(i, length, signed) ==
    IF signed
    THEN IF i < -shl(length - 1) \/ i >= shl(length - 1)
         THEN [err |-> "OverflowError", ba |-> <<>>]
         ELSE [err |-> "", ba |-> to_bits(IF i < 0 THEN -i ELSE i, length)]
    ELSE IF i < 0 \/ i >= shl(length)
         THEN [err |-> "OverflowError", ba |-> <<>>]
         ELSE [err |-> "", ba |-> to_bits(i, length)]

int2ba_bad_range(i, length, signed) ==
    IF signed
    THEN IF i < -shl(length - 1) \/ i > shl(length - 1)
         THEN [err |-> "OverflowError", ba |-> <<>>]
         ELSE [err |-> "", ba |-> to_bits(IF i < 0 THEN i + shl(length) ELSE i, length)]
    ELSE IF i < 0 \/ i > shl(length)
         THEN [err |-> "OverflowError", ba |-> <<>>]
         ELSE [err |-> "", ba |-> to_bits(i, length)]

int2ba(i, length, signed) ==
    IF length <= 0 THEN [err |-> "ValueError", ba |-> <<>>]
    ELSE IF signed
    THEN IF i < -shl(length - 1) \/ i >= shl(length - 1)
         THEN [err |-> "OverflowError", ba |-> <<>>]
         ELSE [err |-> "", ba |-> to_bits(IF i < 0 THEN i + shl(length) ELSE i, length)]
    ELSE IF i < 0 \/ i >= shl(length)
         THEN [err |-> "OverflowError", ba |-> <<>>]
         ELSE [err |-> "", ba |-> to_bits(i, length)]

\* bitarray.util.ba2int(ba, signed=signed): ValueError for an empty bitarray
ba2int(ba, signed) ==
    IF Len(ba) = 0 THEN [err |-> "ValueError", val |-> None]
    ELSE IF signed /\ ba[1] = 1
         THEN [err |-> "", val |-> Some(from_bits(ba) - shl(Len(ba)))]
         ELSE [err |-> "", val |-> Some(from_bits(ba))]

\* What int2bitstore produces: the exception, the bounds its message names,
\* and the store.
Encoded(e, named, s) == [err |-> e, named |-> named, store |-> s]

int2bitstore(i, length, signed) ==
    LET r == int2ba(i, length, signed)
    IN  IF r.err = "" THEN Encoded("", {}, BitStore(r.ba))
        ELSE IF r.err # "OverflowError" THEN Encoded(r.err, {}, BitStore(<<>>))
        ELSE IF signed
        THEN IF i >= shl(length - 1) \/ i < -shl(length - 1)
             THEN Encoded("CreationError", {-shl(length - 1), shl(length - 1) - 1},
                          BitStore(<<>>))
             ELSE Encoded(r.err, {}, BitStore(<<>>))
        ELSE IF i >= shl(length)
             THEN Encoded("CreationError", {0, shl(length) - 1}, BitStore(<<>>))
             ELSE IF i < 0
                  THEN Encoded("CreationError", {0}, BitStore(<<>>))
                  ELSE Encoded(r.err, {}, BitStore(<<>>))

\* BitStore.getslice is bound to getslice_msb0 or to getslice_lsb0
getslice(self, key, lsb0) ==
    IF lsb0 THEN getslice_lsb0(self, key) ELSE getslice_msb0(self, key)

slice_to_uint(self, start, end, lsb0) ==
    ba2int(Val(getslice(self, Slice(start, end, None), lsb0).ret).bitarray, FALSE)

slice_to_int(self, start, end, lsb0) ==
    ba2int(Val(getslice(self, Slice(start, end, None), lsb0).ret).bitarray, TRUE)

InitInt ==
    /\ call \in [i : (-MaxInt)..MaxInt, length : 1..MaxWidth, signed : BOOLEAN,
                 lsb0 : BOOLEAN]
    /\ x = BitStore(<<>>)
    /\ y = BitStore(<<>>)
    /\ op = "call"
    /\ err = ""
    /\ ret = None
    /\ result = Unused
    /\ register = Unused

Int2bitstore ==
    /\ op = "call"
    /\ LET o == int2bitstore(call.i, call.length, call.signed)
       IN  /\ op' = "int2bitstore"
           /\ err' = o.err
           /\ result' = o.named
           /\ x' = o.store
    /\ UNCHANGED <<y, ret, call, register>>

SliceToUint ==
    /\ op = "int2bitstore"
    /\ err = ""
    /\ LET o == slice_to_uint(x, None, None, call.lsb0)
       IN  /\ op' = "slice_to_uint"
           /\ err' = o.err
           /\ ret' = o.val
    /\ UNCHANGED <<x, y, call, result, register>>

SliceToInt ==
    /\ op = "int2bitstore"
    /\ err = ""
    /\ LET o == slice_to_int(x, None, None, call.lsb0)
       IN  /\ op' = "slice_to_int"
           /\ err' = o.err
           /\ ret' = o.val
    /\ UNCHANGED <<x, y, call, result, register>>

NextInt == Int2bitstore \/ SliceToUint \/ SliceToInt

SpecInt == InitInt /\ [][NextInt]_vars

\* the range of integers that fit the call's width
Representable(c) ==
    IF c.signed
    THEN -(2 ^ (c.length - 1)) <= c.i /\ c.i < 2 ^ (c.length - 1)
    ELSE 0 <= c.i /\ c.i < 2 ^ c.length

\* C4: an integer that fits w >= 1 bits is encoded into exactly w bits, and
\* decoding those bits with the same signedness gives the integer back.
C4_IntRoundTrip ==
    /\ (op # "call" /\ Representable(call)) => (err = "" /\ len(x) = call.length)
    /\ (op = "slice_to_uint" /\ ~call.signed) => ret = Some(call.i)
    /\ (op = "slice_to_int" /\ call.signed) => ret = Some(call.i)

C4_Witness ==
    /\ op = "slice_to_int"
    /\ call.signed
    /\ call.i < 0
    /\ call.length = 3
    /\ ret = Some(call.i)

\* the bound of the width that the integer violates
ViolatedBound(c) ==
    IF c.signed
    THEN (IF c.i < 0 THEN -(2 ^ (c.length - 1)) ELSE 2 ^ (c.length - 1) - 1)
    ELSE (IF c.i < 0 THEN 0 ELSE 2 ^ c.length - 1)

\* C5: int2bitstore raises an error that names the violated bound, and gives
\* no store, exactly for the integers outside the range of the width; for an
\* integer inside the range it gives a store and no error.
C5_IntRangeError ==
    op = "int2bitstore" =>
        /\ ~Representable(call) =>
              (err = "CreationError" /\ ViolatedBound(call) \in result)
        /\ Representable(call) =>
              (err = "" /\ x.bitarray = to_bits(call.i % (2 ^ call.length), call.length))

C5_Witness ==
    /\ op = "int2bitstore"
    /\ call.i = 2 ^ call.length
    /\ ~call.signed
    /\ err = "CreationError"

----------------------------------------------------------------------------
(* Exponential-Golomb codes.                                               *)

MaxGolomb == 8      \* largest |i| encoded

\* BitStore._copy and BitStore.__add__
copy_always(self, lsb0) == Val(getslice(self, Slice(None, self.length, None), lsb0).ret)

add(self, other, lsb0) == iadd(copy_always(self, lsb0), other).self

zeros(n) == [k \in 1..n |-> 0]

\* the loop of ue2bitstore: how often tmp is halved until it is 0, less one
RECURSIVE leadingzeros_loop(_, _)
leadingzeros_loop(tmp, leadingzeros) ==
    IF tmp > 0 THEN leadingzeros_loop(tmp \div 2, leadingzeros + 1) ELSE leadingzeros

ue2bitstore_remainder_off_by_one(i, lsb0) ==
    IF i < 0 THEN Encoded("CreationError", {}, BitStore(<<>>))
    ELSE IF i = 0 THEN Encoded("", {}, BitStore(<<1>>))
    ELSE LET leadingzeros == leadingzeros_loop(i + 1, -1)
             remainingpart == i - shl(leadingzeros)
             tail == int2bitstore(remainingpart, leadingzeros, FALSE)
         IN  IF tail.err # "" THEN tail
             ELSE Encoded("", {}, add(BitStore(zeros(leadingzeros) \o <<1>>), tail.store, lsb0))

ue2bitstore(i, lsb0) ==
    IF i < 0 THEN Encoded("CreationError", {}, BitStore(<<>>))
    ELSE IF i = 0 THEN Encoded("", {}, BitStore(<<1>>))
    ELSE LET leadingzeros == leadingzeros_loop(i + 1, -1)
             remainingpart == i + 1 - shl(leadingzeros)
             tail == int2bitstore(remainingpart, leadingzeros, FALSE)
         IN  IF tail.err # "" THEN tail
             ELSE Encoded("", {}, add(BitStore(zeros(leadingzeros) \o <<1>>), tail.store, lsb0))

se2bitstore_no_offset(i, lsb0) ==
    ue2bitstore(IF i > 0 THEN i * 2 ELSE -2 * i, lsb0)

se2bitstore(i, lsb0) ==
    ue2bitstore(IF i > 0 THEN (i * 2) - 1 ELSE -2 * i, lsb0)

\* bin(n)[2:] for n > 0: the binary digits of n, most significant first
RECURSIVE bin(_)
bin(n) == IF n < 2 THEN <<n>> ELSE bin(n \div 2) \o <<n % 2>>

\* '0'.join(digits)
RECURSIVE join0(_)
join0(digits) ==
    IF Len(digits) <= 1 THEN digits
    ELSE <<Head(digits), 0>> \o join0(Tail(digits))

uie2bitstore(i) ==
    IF i < 0 THEN Encoded("CreationError", {}, BitStore(<<>>))
    ELSE IF i = 0 THEN Encoded("", {}, BitStore(<<1>>))
    ELSE Encoded("", {}, BitStore(<<0>> \o join0(Tail(bin(i + 1))) \o <<1>>))

abs(i) == IF i < 0 THEN -i ELSE i

sie2bitstore(i, lsb0) ==
    IF i = 0 THEN Encoded("", {}, BitStore(<<1>>))
    ELSE LET u == uie2bitstore(abs(i))
         IN  IF u.err # "" THEN u
             ELSE Encoded("", {}, add(u.store, BitStore(IF i < 0 THEN <<1>> ELSE <<0>>), lsb0))

InitGolomb ==
    /\ call \in [fn : {"ue", "se", "uie", "sie"}, i : (-MaxGolomb)..MaxGolomb,
                 j : (-MaxGolomb)..MaxGolomb, lsb0 : BOOLEAN]
    /\ x = BitStore(<<>>)
    /\ y = BitStore(<<>>)
    /\ op = "call"
    /\ err = ""
    /\ ret = None
    /\ result = Unused
    /\ register = Unused

\* the encoder is called for call.i, its code kept in x, then for call.j,
\* its code kept in y
Encode(fn, first, second) ==
    /\ call.fn = fn
    /\ err = ""
    /\ \/ /\ op = "call"
          /\ op' = "first"
          /\ err' = first.err
          /\ x' = first.store
          /\ y' = y
       \/ /\ op = "first"
          /\ op' = "second"
          /\ err' = second.err
          /\ y' = second.store
          /\ x' = x
    /\ UNCHANGED <<ret, call, result, register>>

Ue2bitstore == Encode("ue", ue2bitstore(call.i, call.lsb0), ue2bitstore(call.j, call.lsb0))

Se2bitstore == Encode("se", se2bitstore(call.i, call.lsb0), se2bitstore(call.j, call.lsb0))

Uie2bitstore == Encode("uie", uie2bitstore(call.i), uie2bitstore(call.j))

Sie2bitstore == Encode("sie", sie2bitstore(call.i, call.lsb0), sie2bitstore(call.j, call.lsb0))

NextGolomb == Ue2bitstore \/ Se2bitstore \/ Uie2bitstore \/ Sie2bitstore

SpecGolomb == InitGolomb /\ [][NextGolomb]_vars

IsPrefix(a, b) == Len(a) <= Len(b) /\ SubSeq(b, 1, Len(a)) = a

\* the integers an encoder accepts
InDomain(fn, i) == fn \in {"se", "sie"} \/ i >= 0

\* C6: each of the four encoders gives every integer of its domain a code,
\* and the codes of two different integers are different and neither is a
\* prefix of the other, which is what lets an exact inverse decoder recover
\* the integer from its code.
C6_GolombUniquelyDecodable ==
    /\ (op = "first" /\ InDomain(call.fn, call.i)) => (err = "" /\ Len(x.bitarray) > 0)
    /\ (op = "second" /\ InDomain(call.fn, call.j)) => (err = "" /\ Len(y.bitarray) > 0)
    /\ (op = "second" /\ err = "" /\ call.i # call.j) =>
            (~IsPrefix(x.bitarray, y.bitarray) /\ ~IsPrefix(y.bitarray, x.bitarray))

C6_Witness ==
    /\ op = "second"
    /\ err = ""
    /\ call.fn = "se"
    /\ call.i = 1
    /\ call.j = -1
    /\ x.bitarray = <<0, 1, 0>>
    /\ y.bitarray = <<0, 1, 1>>

----------------------------------------------------------------------------
(* The 8-bit floats.  A float is not-a-number or (-1)^neg * m * 2^e with   *)
(* m a natural number, which is exact for every value of the formats.      *)

Num(neg, m, e) == [kind |-> "num", neg |-> neg, m |-> m, e |-> e]
Inf(neg) == [kind |-> "inf", neg |-> neg, m |-> 1, e |-> 0]
NaN == [kind |-> "nan", neg |-> FALSE, m |-> 0, e |-> 0]

e4m3float_fmt == [exp_bits |-> 4, bias |-> 8]
e5m2float_fmt == [exp_bits |-> 5, bias |-> 16]

Format(name) == IF name = "e4m3float" THEN e4m3float_fmt ELSE e5m2float_fmt

\* the number of binary digits of m, 0 for 0
RECURSIVE bit_length(_)
bit_length(m) == IF m = 0 THEN 0 ELSE 1 + bit_length(m \div 2)

\* a < b for magnitudes m * 2^e: by the position of the leading digit, then
\* by the digits aligned
mag_less(a, b) ==
    IF a.kind = "inf" THEN FALSE
    ELSE IF b.kind = "inf" THEN TRUE
    ELSE IF b.m = 0 THEN FALSE
    ELSE IF a.m = 0 THEN TRUE
    ELSE LET pa == bit_length(a.m) + a.e
             pb == bit_length(b.m) + b.e
             width == Max(bit_length(a.m), bit_length(b.m))
         IN  IF pa # pb THEN pa < pb
             ELSE a.m * 2 ^ (width - bit_length(a.m)) < b.m * 2 ^ (width - bit_length(b.m))

\* f < g on floats; every comparison with not-a-number is false
float_less(f, g) ==
    IF f.kind = "nan" \/ g.kind = "nan" THEN FALSE
    ELSE LET fneg == f.neg /\ f.m # 0
             gneg == g.neg /\ g.m # 0
         IN  IF fneg /\ ~gneg THEN TRUE
             ELSE IF ~fneg /\ gneg THEN FALSE
             ELSE IF fneg THEN mag_less(g, f)
             ELSE mag_less(f, g)

\* createLUT_for_int8_to_float(exp_bits, bias)[i]
lut_int8_to_float(fmt, i) ==
    LET b == to_bits(i, 8)
        sign == b[1] = 1
        exponent == from_bits(SubSeq(b, 2, 1 + fmt.exp_bits))
        significand == SubSeq(b, 2 + fmt.exp_bits, 8)
        digits == IF exponent = 0 THEN <<0>> \o significand ELSE <<1>> \o significand
        exp == IF exponent = 0 THEN -fmt.bias + 1 ELSE exponent - fmt.bias
    IN  IF i = 128 THEN NaN
        ELSE Num(sign, from_bits(digits), exp - (7 - fmt.exp_bits))

SetMin(S) == CHOOSE v \in S : \A w \in S : v <= w

slow_float_to_int8_off_by_one(fmt, f) ==
    IF ~float_less(f, Num(FALSE, 0, 0)) /\ f.kind # "nan"
    THEN LET above == {i \in 0..127 : float_less(f, lut_int8_to_float(fmt, i))}
         IN  IF above # {} THEN SetMin(above) ELSE 127
    ELSE IF float_less(f, Num(FALSE, 0, 0))
    THEN IF float_less(lut_int8_to_float(fmt, 129), f) THEN 0
         ELSE LET below == {i \in 130..255 : float_less(lut_int8_to_float(fmt, i), f)}
              IN  IF below # {} THEN SetMin(below) ELSE 255
    ELSE 128

slow_float_to_int8_no_zero_case(fmt, f) ==
    IF ~float_less(f, Num(FALSE, 0, 0)) /\ f.kind # "nan"
    THEN LET above == {i \in 0..127 : float_less(f, lut_int8_to_float(fmt, i))}
         IN  IF above # {} THEN SetMin(above) - 1 ELSE 127
    ELSE IF float_less(f, Num(FALSE, 0, 0))
    THEN LET below == {i \in 130..255 : float_less(lut_int8_to_float(fmt, i), f)}
         IN  IF below # {} THEN SetMin(below) - 1 ELSE 255
    ELSE 128

\* slow_float_to_int8(lut_int8_to_float, f)
slow_float_to_int8(fmt, f) ==
    IF ~float_less(f, Num(FALSE, 0, 0)) /\ f.kind # "nan"
    THEN LET above == {i \in 0..127 : float_less(f, lut_int8_to_float(fmt, i))}
         IN  IF above # {} THEN SetMin(above) - 1 ELSE 127
    ELSE IF float_less(f, Num(FALSE, 0, 0))
    THEN IF float_less(lut_int8_to_float(fmt, 129), f) THEN 0
         ELSE LET below == {i \in 130..255 : float_less(lut_int8_to_float(fmt, i), f)}
              IN  IF below # {} THEN SetMin(below) - 1 ELSE 255
    ELSE 128

\* the nearest half-precision float (ties to even): 11 significant digits,
\* no digit below 2^-24; "overflow" from 65520 up
float16(f) ==
    IF f.kind = "nan" \/ f.kind = "inf" \/ f.m = 0 THEN f
    ELSE LET shift == Max(bit_length(f.m) - 11, -24 - f.e)
             q == f.m \div 2 ^ shift
             r == f.m % 2 ^ shift
             up == 2 * r > 2 ^ shift \/ (2 * r = 2 ^ shift /\ q % 2 = 1)
             m == IF shift <= 0 THEN f.m ELSE IF up THEN q + 1 ELSE q
             e == IF shift <= 0 THEN f.e ELSE f.e + shift
         IN  IF bit_length(m) + e > 16 THEN [f EXCEPT !.kind = "overflow"]
             ELSE Num(f.neg, m, e)

\* float_to_int8: the code that the table of all half-precision patterns,
\* filled by the scan of slow_float_to_int8, holds for the float; a float too
\* large for half precision takes the largest code of its sign
float_to_int8(fmt, f) ==
    LET h == float16(f)
    IN  IF h.kind = "overflow" THEN (IF f.neg THEN 255 ELSE 127)
        ELSE slow_float_to_int8(fmt, h)

InitFp8 ==
    /\ call \in [fmt : {"e4m3float", "e5m2float"}, c : 0..255]
    /\ x = BitStore(<<>>)
    /\ y = BitStore(<<>>)
    /\ op = "call"
    /\ err = ""
    /\ ret = None
    /\ result = NaN
    /\ register = Unused

\* fmt.lut_int8_to_float[c]
Int8ToFloat ==
    /\ op = "call"
    /\ op' = "lut_int8_to_float"
    /\ result' = lut_int8_to_float(Format(call.fmt), call.c)
    /\ UNCHANGED <<x, y, err, ret, call, register>>

\* fmt.float_to_int8(f) of the float just decoded
FloatToInt8 ==
    /\ op = "lut_int8_to_float"
    /\ op' = "float_to_int8"
    /\ ret' = Some(float_to_int8(Format(call.fmt), result))
    /\ UNCHANGED <<x, y, err, call, result, register>>

NextFp8 == Int8ToFloat \/ FloatToInt8

SpecFp8 == InitFp8 /\ [][NextFp8]_vars

\* C7: for both formats and every code c in 0..255, encoding the float that
\* c decodes to gives c back, the not-a-number code 128 included.
C7_Fp8CodeRoundTrip ==
    op = "float_to_int8" => ret = Some(call.c)

C7_Witness ==
    /\ op = "float_to_int8"
    /\ call.c = 128
    /\ call.fmt = "e5m2float"
    /\ result.kind = "nan"
    /\ ret = Some(128)

----------------------------------------------------------------------------
(* The dtype register: a mapping from names and aliases to definitions.    *)

\* the names used: built-in "uint" with its alias "u", built-in "bfloat",
\* and "penguin", which is not built in
Names == {"uint", "u", "bfloat", "penguin"}

DtypeDefinition(name) == [name |-> name]

\* the register as populated at start
builtin_register ==
    [n \in {"uint", "u", "bfloat"} |->
        IF n = "u" THEN DtypeDefinition("uint") ELSE DtypeDefinition(n)]

Registered(r, name) == name \in DOMAIN r

\* What a register operation produces: the exception, the register
\* afterwards and the definition returned.
RegOutcome(e, r, d) == [err |-> e, register |-> r, ret |-> d]

\* add(definition)
add_dtype(r, definition) ==
    RegOutcome("", [n \in DOMAIN r \cup {definition.name} |->
                        IF n = definition.name THEN definition ELSE r[n]], None)

\* addAlias(existingName, newName)
add_dtype_alias(r, name, alias) ==
    IF ~Registered(r, name) THEN RegOutcome("KeyError", r, None)
    ELSE RegOutcome("", [n \in DOMAIN r \cup {alias} |->
                            IF n = alias THEN r[name] ELSE r[n]], None)

\* lookup(name)
register_getitem(r, name) ==
    IF ~Registered(r, name) THEN RegOutcome("KeyError", r, None)
    ELSE RegOutcome("", r, Some(r[name]))

register_delitem_silent(r, name) ==
    RegOutcome("", [n \in DOMAIN r \ {name} |-> r[n]], None)

\* remove(name)
register_delitem(r, name) ==
    IF ~Registered(r, name) THEN RegOutcome("KeyError", r, None)
    ELSE RegOutcome("", [n \in DOMAIN r \ {name} |-> r[n]], None)

InitRegister ==
    /\ register = builtin_register
    /\ call = [name |-> "", alias |-> ""]
    /\ op = "Register"
    /\ err = ""
    /\ ret = None
    /\ x = BitStore(<<>>)
    /\ y = BitStore(<<>>)
    /\ result = Unused

RegisterCall(name, args, o) ==
    /\ op' = name
    /\ call' = args
    /\ err' = o.err
    /\ ret' = o.ret
    /\ register' = o.register
    /\ UNCHANGED <<x, y, result>>

AddDtype ==
    \E n \in Names :
        RegisterCall("add_dtype", [name |-> n, alias |-> ""],
                     add_dtype(register, DtypeDefinition(n)))

AddDtypeAlias ==
    \E n \in Names, a \in Names :
        RegisterCall("add_dtype_alias", [name |-> n, alias |-> a],
                     add_dtype_alias(register, n, a))

Getitem ==
    \E n \in Names :
        RegisterCall("getitem", [name |-> n, alias |-> ""], register_getitem(register, n))

Delitem ==
    \E n \in Names :
        RegisterCall("delitem", [name |-> n, alias |-> ""], register_delitem(register, n))

NextRegister == AddDtype \/ AddDtypeAlias \/ Getitem \/ Delitem

SpecRegister == InitRegister /\ [][NextRegister]_vars

\* C8: lookup and remove fail with KeyError exactly when the name is not
\* registered; a successful remove unregisters the name, a failed remove
\* leaves the register as it was, and a name that is not registered stays so
\* until it is added (as a definition's name or as an alias) again.  Built-in
\* names are treated as any other.
C8_RegisterNotFound ==
    [][/\ (op' \in {"getitem", "delitem"}) =>
              ((err' = "KeyError") <=> ~Registered(register, call'.name))
       /\ (op' \in {"getitem", "delitem"} /\ err' = "") => Registered(register, call'.name)
       /\ (op' = "delitem" /\ err' = "") => ~Registered(register', call'.name)
       /\ (op' = "delitem" /\ err' # "") => register' = register
       /\ \A n \in Names :
              (~Registered(register, n) /\ Registered(register', n)) =>
                  /\ op' \in {"add_dtype", "add_dtype_alias"}
                  /\ err' = ""
                  /\ n = (IF op' = "add_dtype" THEN call'.name ELSE call'.alias)
      ]_vars

\* a built-in name is removed a second time and the remove fails
C8_Witness ==
    /\ op = "delitem"
    /\ err = "KeyError"
    /\ call.name = "bfloat"
    /\ ~Registered(register, "bfloat")
    /\ Registered(register, "uint")

----------------------------------------------------------------------------
(* Literals: bin2bitstore, hex2bitstore, oct2bitstore.  A string is a      *)
(* sequence of characters.                                                 *)

MaxStr == 4         \* longest literal decoded

Chars == {"0", "1", "7", "f", "F", "b", "B", "x", "o", "_", " "}
Strings(n) == UNION {[1..k -> Chars] : k \in 0..n}

Whitespace == {" "}

lower_char(c) == IF c = "F" THEN "f" ELSE IF c = "B" THEN "b" ELSE c

RECURSIVE remove_chars(_, _)
remove_chars(str, drop) ==
    IF Len(str) = 0 THEN <<>>
    ELSE (IF Head(str) \in drop THEN <<>> ELSE <<Head(str)>>)
         \o remove_chars(Tail(str), drop)

\* ''.join(s.split()).lower().replace('_', '')
tidy_input_string(str) ==
    LET joined == remove_chars(str, Whitespace)
        lowered == [k \in 1..Len(joined) |-> lower_char(joined[k])]
    IN  remove_chars(lowered, {"_"})

\* str.replace(old, ''), old of two characters: every occurrence, found from
\* the left, without overlap
RECURSIVE replace_all(_, _)
replace_all(str, old) ==
    IF Len(str) < 2 THEN str
    ELSE IF SubSeq(str, 1, 2) = old THEN replace_all(SubSeq(str, 3, Len(str)), old)
    ELSE <<Head(str)>> \o replace_all(Tail(str), old)

\* the value of a digit character of base 16, -1 for any other character
digit_value(c) ==
    CASE c = "0" -> 0 [] c = "1" -> 1 [] c = "7" -> 7 [] c = "b" -> 11 [] c = "f" -> 15
      [] OTHER -> -1

valid_digits(str, base) ==
    \A k \in 1..Len(str) : digit_value(str[k]) >= 0 /\ digit_value(str[k]) < base

\* the digits of a string in a base of 2^width, width bits each
RECURSIVE digits_to_bits(_, _)
digits_to_bits(str, width) ==
    IF Len(str) = 0 THEN <<>>
    ELSE to_bits(digit_value(Head(str)), width) \o digits_to_bits(Tail(str), width)

\* bitarray(str), hex2ba(str), base2ba(8, str): ValueError for a character
\* that is no digit of the base
base2ba(str, base, width) ==
    IF valid_digits(str, base)
    THEN Encoded("", {}, BitStore(digits_to_bits(str, width)))
    ELSE Encoded("ValueError", {}, BitStore(<<>>))

literal2bitstore(str, prefix, base, width) ==
    LET r == base2ba(replace_all(tidy_input_string(str), prefix), base, width)
    IN  IF r.err = "ValueError" THEN Encoded("CreationError", {}, BitStore(<<>>)) ELSE r

bin2bitstore(binstring) == literal2bitstore(binstring, <<"0", "b">>, 2, 1)

hex2bitstore(hexstring) == literal2bitstore(hexstring, <<"0", "x">>, 16, 4)

oct2bitstore(octstring) == literal2bitstore(octstring, <<"0", "o">>, 8, 3)

InitLiteral ==
    /\ call \in [fn : {"bin", "hex", "oct"}, s : Strings(MaxStr)]
    /\ x = BitStore(<<>>)
    /\ y = BitStore(<<>>)
    /\ op = "call"
    /\ err = ""
    /\ ret = None
    /\ result = Unused
    /\ register = Unused

Decode(fn, o) ==
    /\ op = "call"
    /\ call.fn = fn
    /\ op' = fn
    /\ err' = o.err
    /\ x' = o.store
    /\ UNCHANGED <<y, ret, call, result, register>>

Bin2bitstore == Decode("bin", bin2bitstore(call.s))

Hex2bitstore == Decode("hex", hex2bitstore(call.s))

Oct2bitstore == Decode("oct", oct2bitstore(call.s))

NextLiteral == Bin2bitstore \/ Hex2bitstore \/ Oct2bitstore

SpecLiteral == InitLiteral /\ [][NextLiteral]_vars

\* what the literal forms are documented to accept: after whitespace and
\* underscores are removed and case is ignored, one optional leading prefix
\* and then digits of the base only
LiteralPrefix(fn) ==
    IF fn = "bin" THEN <<"0", "b">> ELSE IF fn = "hex" THEN <<"0", "x">> ELSE <<"0", "o">>
LiteralBase(fn) == IF fn = "bin" THEN 2 ELSE IF fn = "hex" THEN 16 ELSE 8
LiteralWidth(fn) == IF fn = "bin" THEN 1 ELSE IF fn = "hex" THEN 4 ELSE 3

LiteralDigits(fn, str) ==
    LET t == remove_chars([k \in 1..Len(str) |-> lower_char(str[k])], {" ", "_"})
    IN  IF Len(t) >= 2 /\ SubSeq(t, 1, 2) = LiteralPrefix(fn)
        THEN SubSeq(t, 3, Len(t)) ELSE t

\* C9: a literal is accepted exactly when it is an optional single leading
\* prefix followed only by digits of the base, and then decodes to the bits
\* of those digits; every other string raises the creation error.
C9_LiteralAcceptance ==
    op \in {"bin", "hex", "oct"} =>
        LET d == LiteralDigits(call.fn, call.s)
        IN  IF valid_digits(d, LiteralBase(call.fn))
            THEN err = "" /\ x.bitarray = digits_to_bits(d, LiteralWidth(call.fn))
            ELSE err = "CreationError"

----------------------------------------------------------------------------
(* Searching: find and findall_msb0.                                       *)

MaxFindBits == 4    \* longest store searched
MaxPattern == 2     \* longest pattern searched for

\* the places i, start <= i and i + len(sub) <= stop, where sub occurs in ba
occurrences(ba, sub, start, stop) ==
    {i \in start..(stop - Len(sub)) : SubSeq(ba, i + 1, i + Len(sub)) = sub}

\* a finite set of integers in increasing order
RECURSIVE ascending(_)
ascending(S) ==
    IF S = {} THEN <<>> ELSE <<SetMin(S)>> \o ascending(S \ {SetMin(S)})

\* bitarray.find(sub, start, end): the lowest place within [start, end),
\* both clamped as a slice's bounds are, or -1
ba_find(ba, sub, start, end) ==
    LET i == slice_indices(Slice(Some(start), Some(end), None), Len(ba))
        found == occurrences(ba, sub, i.start, i.stop)
    IN  IF found = {} THEN -1 ELSE SetMin(found)

\* bitarray.itersearch(sub): every place where sub occurs, in increasing
\* order, each search resuming one bit after the last match
ba_itersearch(ba, sub) == ascending(occurrences(ba, sub, 0, Len(ba)))

find(self, bs, start, end) ==
    Outcome("", self, Some(ba_find(self.bitarray, bs.bitarray, start, end)))

findall_msb0(self, bs, start, end) ==
    Outcome("", self,
            Some(ba_itersearch(ba_getitem_slice(self.bitarray,
                                                Slice(Some(start), Some(end), None)),
                               bs.bitarray)))

InitFind ==
    /\ x \in {BitStore(b) : b \in BitSeqs(MaxFindBits)}
    /\ y \in {BitStore(b) : b \in BitSeqs(MaxPattern) \ {<<>>}}
    /\ call \in [start : 0..MaxFindBits, end : 0..MaxFindBits]
    /\ op = "call"
    /\ err = ""
    /\ ret = None
    /\ result = Unused
    /\ register = Unused

Search(name, o) ==
    /\ op = "call"
    /\ op' = name
    /\ err' = o.err
    /\ ret' = o.ret
    /\ UNCHANGED <<x, y, call, result, register>>

Find == Search("find", find(x, y, call.start, call.end))

FindallMsb0 == Search("findall_msb0", findall_msb0(x, y, call.start, call.end))

NextFind == Find \/ FindallMsb0

SpecFind == InitFind /\ [][NextFind]_vars

\* C10: findall_msb0 yields increasing MSB0 positions of the store itself,
\* each inside the window and the place of an occurrence of the pattern, no
\* two matches overlapping, the first one being what find returns.
C10_FindallAbsoluteDisjoint ==
    op = "findall_msb0" =>
        LET p == Val(ret)
            n == Len(y.bitarray)
        IN  /\ \A k \in 1..Len(p) :
                  /\ call.start <= p[k]
                  /\ p[k] + n <= call.end
                  /\ p[k] + n <= Len(x.bitarray)
                  /\ SubSeq(x.bitarray, p[k] + 1, p[k] + n) = y.bitarray
            /\ \A k \in 1..(Len(p) - 1) : p[k + 1] - p[k] >= n
            /\ Len(p) > 0 => p[1] = Val(find(x, y, call.start, call.end).ret)

----------------------------------------------------------------------------
(* The data model of the store.                                            *)

\* C11: in every state reached by construction and any sequence of store
\* operations, a store whose modified flag is true is immutable, and its
\* logical length is at least 0 and at most the number of bits its bitarray
\* holds; constructing a view with a negative length, or with a length above
\* the bits available, raises a creation error.
C11_DataModelInvariant ==
    /\ x.modified => x.immutable
    /\ 0 <= len(x)
    /\ len(x) <= Len(x.bitarray)
    /\ \A initializer \in BitSeqs(MaxBits), filename \in Filenames, length \in Lengths :
          (~IsNone(length) /\ (Val(length) < 0 \/ Val(length) > Len(initializer)))
              => BitStore_init(initializer, TRUE, filename, length).err = "CreationError"

----------------------------------------------------------------------------
(* The exact form of the unsigned exponential-Golomb code.                 *)

\* floor(log2(n)) for n >= 1
floor_log2(n) == CHOOSE z \in 0..n : 2 ^ z <= n /\ n < 2 ^ (z + 1)

\* z zero bits, a 1 bit, then the z binary digits of i + 1 - 2^z, most
\* significant first, where z = floor(log2(i + 1))
ue_form(i) ==
    LET z == floor_log2(i + 1)
        r == i + 1 - 2 ^ z
    IN  [k \in 1..(2 * z + 1) |->
            IF k <= z THEN 0
            ELSE IF k = z + 1 THEN 1
            ELSE (r \div (2 ^ (2 * z + 1 - k))) % 2]

ue_as_specified(i, e, code) ==
    IF i >= 0
    THEN /\ e = ""
         /\ code = ue_form(i)
         /\ Len(code) = 2 * floor_log2(i + 1) + 1
    ELSE /\ e # ""
         /\ code = <<>>

\* C12: ue2bitstore(i) for i >= 0 is z zero bits, one 1 bit, then the z-bit
\* big-endian binary form of r, with z = floor(log2(i + 1)) and
\* r = i + 1 - 2^z, 2z + 1 bits in all; for i < 0 it raises an error and
\* gives no store.
C12_UeExactForm ==
    call.fn = "ue" =>
        /\ op = "first" => ue_as_specified(call.i, err, x.bitarray)
        /\ op = "second" => ue_as_specified(call.j, err, y.bitarray)

C12_Witness ==
    /\ call.fn = "ue"
    /\ op = "second"
    /\ call.i = 5
    /\ x.bitarray = <<0, 0, 1, 1, 0>>
    /\ call.j = 0
    /\ y.bitarray = <<1>>

----------------------------------------------------------------------------
(* Encoding half-precision floats to 8 bits, and decoding the code again   *)
(* (test_float16_conversion).                                              *)

MaxMantissa == 31   \* largest significand of the floats encoded

\* half-precision values m * 2^e of either sign, and the two infinities
Halfs ==
    {Inf(TRUE), Inf(FALSE)} \cup
    {f \in {Num(neg, m, e) : neg \in BOOLEAN, m \in 0..MaxMantissa, e \in (-24)..11} :
        bit_length(f.m) + f.e <= 16}

InitEncode ==
    /\ call \in [fmt : {"e4m3float", "e5m2float"}, f : Halfs]
    /\ x = BitStore(<<>>)
    /\ y = BitStore(<<>>)
    /\ op = "call"
    /\ err = ""
    /\ ret = None
    /\ result = NaN
    /\ register = Unused

\* f8 = fmt.lut_float16_to_float8[i], for the half-precision pattern i of f
EncodeFloat16 ==
    /\ op = "call"
    /\ op' = "float_to_int8"
    /\ ret' = Some(float_to_int8(Format(call.fmt), call.f))
    /\ UNCHANGED <<x, y, err, call, result, register>>

\* f = fmt.lut_int8_to_float[f8]
DecodeFloat8 ==
    /\ op = "float_to_int8"
    /\ op' = "lut_int8_to_float"
    /\ result' = lut_int8_to_float(Format(call.fmt), Val(ret))
    /\ UNCHANGED <<x, y, err, ret, call, register>>

NextEncode == EncodeFloat16 \/ DecodeFloat8

SpecEncode == InitEncode /\ [][NextEncode]_vars

\* v lies strictly between a and b
strictly_between(v, a, b) ==
    \/ float_less(a, v) /\ float_less(v, b)
    \/ float_less(b, v) /\ float_less(v, a)

\* C13: encoding a half-precision value f that is not NaN rounds toward zero
\* and saturates: the code c is never 128, |decode(c)| <= |f|, decode(c) has
\* the sign of f or is zero, no other code decodes to a value strictly
\* between decode(c) and f; f at or above the largest finite value gives 127,
\* f at or below the most negative one gives 255, a negative f nearer to
\* zero than the smallest negative code gives 0; and the code does not
\* decrease when a positive f grows.
C13_Fp8RoundTowardZero ==
    op = "lut_int8_to_float" =>
        LET fmt == Format(call.fmt)
            f == call.f
            c == Val(ret)
            d == result
        IN  /\ c # 128
            /\ d.kind = "num"
            /\ ~mag_less(f, d)
            /\ d.m = 0 \/ d.neg = f.neg
            /\ \A k \in (0..255) \ {c, 128} :
                  ~strictly_between(lut_int8_to_float(fmt, k), d, f)
            /\ ~float_less(f, lut_int8_to_float(fmt, 127)) => c = 127
            /\ ~float_less(lut_int8_to_float(fmt, 255), f) => c = 255
            /\ (float_less(f, Num(FALSE, 0, 0)) /\ float_less(lut_int8_to_float(fmt, 129), f))
                  => c = 0
            /\ (f.kind = "num" /\ ~f.neg) =>
                  /\ c <= float_to_int8(fmt, Num(FALSE, f.m + 1, f.e))
                  /\ c <= float_to_int8(fmt, Num(FALSE, f.m, f.e + 1))
                  /\ c <= float_to_int8(fmt, Inf(FALSE))

\* 31 lies halfway between the e4m3 values 30 and 32 and is encoded as 30
C13_Witness ==
    /\ op = "lut_int8_to_float"
    /\ call.fmt = "e4m3float"
    /\ call.f = Num(FALSE, 31, 0)
    /\ result = Num(FALSE, 15, 1)
    /\ float_less(result, call.f)

----------------------------------------------------------------------------
(* Copies and shared stores.  Stores are objects: result is the heap, a    *)
(* sequence of stores, and call holds the two handles x and y as           *)
(* references into it (None before the handle is bound), the handle the    *)
(* last operation went through, and the cache of str_to_bitstore.  The     *)
(* variables x and y are the stores seen through the two handles.          *)

MaxCopyBits == 2    \* longest bitarray of a store on the heap
MaxObjects == 2     \* most stores allocated
MaxText == 1        \* most bits a text given to str_to_bitstore denotes

Handles == {"x", "y"}

\* What an allocating call produces: the heap afterwards and the reference
\* returned.
Allocated(heap, ref) == [heap |-> heap, ref |-> ref]

new(heap, store) == Allocated(Append(heap, store), Len(heap) + 1)

\* BitStore.copy
copy(heap, self) ==
    IF heap[self].immutable THEN Allocated(heap, self)
    ELSE new(heap, BitStore(heap[self].bitarray))

\* BitStore._copy
copy_always_object(heap, self, lsb0) == new(heap, copy_always(heap[self], lsb0))

\* str_to_bitstore(s) under functools.lru_cache: the text s is the bits its
\* tokens denote; a text seen before gives the store made for it then
str_to_bitstore(heap, cache, s) ==
    IF s \in DOMAIN cache THEN [heap |-> heap, ref |-> cache[s], cache |-> cache]
    ELSE LET bs == [iadd(BitStore(<<>>), BitStore(s)).self EXCEPT !.immutable = TRUE]
             a == new(heap, bs)
         IN  [heap |-> a.heap, ref |-> a.ref, cache |-> (s :> a.ref) @@ cache]

\* the store a handle refers to
observed(heap, ref) == IF IsNone(ref) THEN BitStore(<<>>) ELSE heap[Val(ref)]

Target(h) == observed(result, call[h])

InitCopy ==
    /\ \E bits \in BitSeqs(MaxCopyBits), immutable \in BOOLEAN :
          /\ result = <<NewStore(bits, immutable, "", None)>>
          /\ x = NewStore(bits, immutable, "", None)
    /\ y = BitStore(<<>>)
    /\ call = [x |-> Some(1), y |-> None, via |-> "x", cache |-> <<>>]
    /\ op = "BitStore"
    /\ err = ""
    /\ ret = None
    /\ register = Unused

\* handle h is bound to the store an allocating call returned
Bind(name, h, a, cache) ==
    /\ Len(a.heap) <= MaxObjects
    /\ op' = name
    /\ err' = ""
    /\ ret' = None
    /\ result' = a.heap
    /\ call' = [call EXCEPT ![h] = Some(a.ref), !.via = h, !.cache = cache]
    /\ x' = observed(a.heap, call'.x)
    /\ y' = observed(a.heap, call'.y)
    /\ UNCHANGED register

\* y = x.copy()
Copy == Bind("copy", "y", copy(result, Val(call.x)), call.cache)

\* y = x._copy()
CopyAlways ==
    \E lsb0 \in BOOLEAN :
        Bind("_copy", "y", copy_always_object(result, Val(call.x), lsb0), call.cache)

\* x = str_to_bitstore(s) or y = str_to_bitstore(s)
StrToBitstore ==
    \E h \in Handles, s \in BitSeqs(MaxText) :
        LET a == str_to_bitstore(result, call.cache, s)
        IN  Bind("str_to_bitstore", h, a, a.cache)

\* the call of a method on the store of handle h
Through(h, name, o) ==
    /\ ~IsNone(call[h])
    /\ Len(o.self.bitarray) <= MaxCopyBits
    /\ op' = name
    /\ err' = o.err
    /\ ret' = o.ret
    /\ result' = [result EXCEPT ![Val(call[h])] = o.self]
    /\ call' = [call EXCEPT !.via = h]
    /\ x' = observed(result', call.x)
    /\ y' = observed(result', call.y)
    /\ UNCHANGED register

HandleSetall == \E h \in Handles, b \in Bit : Through(h, "setall", setall(Target(h), b))

HandleClear == \E h \in Handles : Through(h, "clear", clear(Target(h)))

HandleReverse == \E h \in Handles : Through(h, "reverse", reverse(Target(h)))

HandleIadd ==
    \E h \in Handles, b \in Bit : Through(h, "__iadd__", iadd(Target(h), BitStore(<<b>>)))

HandleInvertMsb0 ==
    \E h \in Handles, i \in {None, Some(0), Some(1)} :
        Through(h, "invert_msb0", invert_msb0(Target(h), i))

HandleSetitemMsb0 ==
    \E h \in Handles, i \in 0..1, b \in Bit :
        Through(h, "setitem_msb0", setitem_msb0(Target(h), IndexKey(i), BitValue(b)))

HandleDelitemMsb0 ==
    \E h \in Handles, i \in 0..1 :
        Through(h, "delitem_msb0", delitem_msb0(Target(h), IndexKey(i)))

NextCopy ==
    \/ Copy
    \/ CopyAlways
    \/ StrToBitstore
    \/ HandleSetall
    \/ HandleClear
    \/ HandleReverse
    \/ HandleIadd
    \/ HandleInvertMsb0
    \/ HandleSetitemMsb0
    \/ HandleDelitemMsb0

SpecCopy == InitCopy /\ [][NextCopy]_vars

\* C14: once both handles are bound, by copy, by _copy or by calls of
\* str_to_bitstore, an operation applied through one handle changes neither
\* the bits nor the length of the store seen through the other handle.
C14_CopyIndependence ==
    [][(~IsNone(call.x) /\ ~IsNone(call.y) /\ op' \in Mutators)
        => IF call'.via = "x"
           THEN y'.bitarray = y.bitarray /\ len(y') = len(y)
           ELSE x'.bitarray = x.bitarray /\ len(x') = len(x)]_vars

====
